---- MODULE Spec2Model ----
(***************************************************************************)
(* Model of combine_pdf.py: the JPEG header parser (_jpeg_dimensions), the *)
(* pure-Python PDF builder (_build_jpeg_pdf) and the sips fallback driver  *)
(* (combine_via_sips).  Byte strings are sequences of integers 0..255;     *)
(* Python's 0-based index k is position k+1 of the TLA+ sequence.          *)
(***************************************************************************)
EXTENDS Integers, Sequences, FiniteSets, TLC

VARIABLES
    data,       \* _jpeg_dimensions: the byte string passed in
    shape,      \* how `data` was drawn (segments, frame, cut, zeroed byte)
    scan_i,     \* _jpeg_dimensions: the cursor i
    dims,       \* _jpeg_dimensions: the outcome (return value or exception)
    pages,      \* _build_jpeg_pdf / combine_via_sips: list of (jpeg, w, h)
    buf,        \* _build_jpeg_pdf: the bytearray being filled
    offsets,    \* _build_jpeg_pdf: dict from object number to byte offset
    page_i,     \* _build_jpeg_pdf: the index i of the page loop
    pdf,        \* _build_jpeg_pdf: the outcome (returned bytes or exception)
    png_files,  \* combine_via_sips: per input file, what sips produces
    idx,        \* combine_via_sips: position of the for loop
    ret,        \* combine_via_sips: return value ("none" while running)
    output,     \* combine_via_sips: output_path (written flag, bytes)
    caller,     \* who called the running function: "direct" or "sips"
    pc          \* which function is running and where

vars == <<data, shape, scan_i, dims, pages, buf, offsets, page_i, pdf,
          png_files, idx, ret, output, caller, pc>>
parseVars == <<data, shape, scan_i, dims>>
buildVars == <<buf, offsets, page_i, pdf>>
sipsVars == <<png_files, idx, ret, output>>

(***************************************************************************)
(* Bounds of the model.                                                    *)
(***************************************************************************)
MaxPages == 3
MaxSegs == 2
MaxFiles == 3

(***************************************************************************)
(* Byte-string literals of _build_jpeg_pdf.                                *)
(***************************************************************************)
\* b'%PDF-1.4\n%\xe2\xe3\xcf\xd3\n'
PdfHeader == <<37, 80, 68, 70, 45, 49, 46, 52, 10, 37, 226, 227, 207, 211, 10>>
\* b' 0 obj\n'
ObjTail == <<32, 48, 32, 111, 98, 106, 10>>
\* b'\nendobj\n'
EndObj == <<10, 101, 110, 100, 111, 98, 106, 10>>
\* b'<<\n/Type /Catalog\n/Pages '
CatalogHead == <<60, 60, 10, 47, 84, 121, 112, 101, 32, 47, 67, 97, 116, 97, 108, 111, 103, 10, 47, 80, 97, 103, 101, 115, 32>>
\* b' 0 R\n>>'
RefTail == <<32, 48, 32, 82, 10, 62, 62>>
\* b'<<\n/Type /Pages\n/Kids ['
PagesHead == <<60, 60, 10, 47, 84, 121, 112, 101, 32, 47, 80, 97, 103, 101, 115, 10, 47, 75, 105, 100, 115, 32, 91>>
\* b']\n/Count '
PagesMid == <<93, 10, 47, 67, 111, 117, 110, 116, 32>>
\* b'\n>>'
DictEnd == <<10, 62, 62>>
\* b' 0 R'
Ref == <<32, 48, 32, 82>>
\* b' '
Space == <<32>>
\* b'<<\n/Type /XObject\n/Subtype /Image\n/Width '
ImgHead == <<60, 60, 10, 47, 84, 121, 112, 101, 32, 47, 88, 79, 98, 106, 101, 99, 116, 10, 47, 83, 117, 98, 116, 121, 112, 101, 32, 47, 73, 109, 97, 103, 101, 10, 47, 87, 105, 100, 116, 104, 32>>
\* b'\n/Height '
ImgHeight == <<10, 47, 72, 101, 105, 103, 104, 116, 32>>
\* b'\n/ColorSpace /DeviceRGB\n/BitsPerComponent 8\n/Filter /DCTDecode\n/Length '
ImgMid == <<10, 47, 67, 111, 108, 111, 114, 83, 112, 97, 99, 101, 32, 47, 68, 101, 118, 105, 99, 101, 82, 71, 66, 10, 47, 66, 105, 116, 115, 80, 101, 114, 67, 111, 109, 112, 111, 110, 101, 110, 116, 32, 56, 10, 47, 70, 105, 108, 116, 101, 114, 32, 47, 68, 67, 84, 68, 101, 99, 111, 100, 101, 10, 47, 76, 101, 110, 103, 116, 104, 32>>
\* b'\n>>\nstream\n'
StreamStart == <<10, 62, 62, 10, 115, 116, 114, 101, 97, 109, 10>>
\* b'\nendstream'
EndStream == <<10, 101, 110, 100, 115, 116, 114, 101, 97, 109>>
\* b'q '
CmQ == <<113, 32>>
\* b' 0 0 '
CmMid == <<32, 48, 32, 48, 32>>
\* b' 0 0 cm /Im Do Q'
CmTail == <<32, 48, 32, 48, 32, 99, 109, 32, 47, 73, 109, 32, 68, 111, 32, 81>>
\* b'<<\n/Length '
LengthHead == <<60, 60, 10, 47, 76, 101, 110, 103, 116, 104, 32>>
\* b'<<\n/Type /Page\n/Parent '
PageHead == <<60, 60, 10, 47, 84, 121, 112, 101, 32, 47, 80, 97, 103, 101, 10, 47, 80, 97, 114, 101, 110, 116, 32>>
\* b' 0 R\n/MediaBox [0 0 '
PageBox == <<32, 48, 32, 82, 10, 47, 77, 101, 100, 105, 97, 66, 111, 120, 32, 91, 48, 32, 48, 32>>
\* b']\n/Resources <<\n/XObject << /Im '
PageRes == <<93, 10, 47, 82, 101, 115, 111, 117, 114, 99, 101, 115, 32, 60, 60, 10, 47, 88, 79, 98, 106, 101, 99, 116, 32, 60, 60, 32, 47, 73, 109, 32>>
\* b' 0 R >>\n>>\n/Contents '
PageContents == <<32, 48, 32, 82, 32, 62, 62, 10, 62, 62, 10, 47, 67, 111, 110, 116, 101, 110, 116, 115, 32>>
\* b'xref\n'
XrefKw == <<120, 114, 101, 102, 10>>
\* b'0 '
XrefSub == <<48, 32>>
\* b'\n'
Newline == <<10>>
\* b'0000000000 65535 f \n'
FreeEntry == <<48, 48, 48, 48, 48, 48, 48, 48, 48, 48, 32, 54, 53, 53, 51, 53, 32, 102, 32, 10>>
\* b' 00000 n \n'
InUseTail == <<32, 48, 48, 48, 48, 48, 32, 110, 32, 10>>
\* b'trailer\n'
TrailerKw == <<116, 114, 97, 105, 108, 101, 114, 10>>
\* b'<<\n/Size '
SizeHead == <<60, 60, 10, 47, 83, 105, 122, 101, 32>>
\* b'\n/Root '
RootHead == <<10, 47, 82, 111, 111, 116, 32>>
\* b' 0 R\n>>\n'
TrailerEnd == <<32, 48, 32, 82, 10, 62, 62, 10>>
\* b'startxref\n'
StartXrefKw == <<115, 116, 97, 114, 116, 120, 114, 101, 102, 10>>
\* b'%%EOF\n'
EofMarker == <<37, 37, 69, 79, 70, 10>>

(***************************************************************************)
(* Python string formatting.                                               *)
(***************************************************************************)
RECURSIVE Dec(_)
\* f"{n}" for a non-negative int: its decimal digits, most significant first
Dec(n) == IF n < 10 THEN <<48 + n>> ELSE Dec(n \div 10) \o <<48 + (n % 10)>>

RECURSIVE ZeroPad(_, _)
\* left-pad a digit string with "0" up to a minimum width (never truncates)
ZeroPad(digits, width) ==
    IF Len(digits) >= width THEN digits ELSE ZeroPad(<<48>> \o digits, width)

\* f"{off:010d}"
Dec010(off) == ZeroPad(Dec(off), 10)

(***************************************************************************)
(* _build_jpeg_pdf: helpers.                                               *)
(***************************************************************************)
\* offsets[num] = value  (dict assignment: inserts or overwrites)
DictPut(d, key, value) ==
    [k \in (DOMAIN d) \cup {key} |-> IF k = key THEN value ELSE d[k]]

\* offsets.get(num, 0)
DictGet(d, key, default) == IF key \in DOMAIN d THEN d[key] ELSE default

\* max(offsets): the largest key
MaxKey(d) == CHOOSE k \in DOMAIN d : \A j \in DOMAIN d : j <= k

\* add_obj that records the offset after the "N 0 obj" line is written
add_objLate(st, num, objdata) ==
    [buf     |-> st.buf \o Dec(num) \o ObjTail \o objdata \o EndObj,
     offsets |-> DictPut(st.offsets, num, Len(st.buf \o Dec(num) \o ObjTail))]

\* add_obj(num, data) applied to the locals st = [buf, offsets]
add_obj(st, num, objdata) ==
    [buf     |-> st.buf \o Dec(num) \o ObjTail \o objdata \o EndObj,
     offsets |-> DictPut(st.offsets, num, Len(st.buf))]

catalog_num == 1
pages_num == 2

\* image numbers that start one too low
img_numsLow(i) == 2 + 3 * i

img_nums(i) == 3 + 3 * i
content_nums(i) == 4 + 3 * i
page_nums(i) == 5 + 3 * i

\* the body of the catalog object
CatalogObj == CatalogHead \o Dec(pages_num) \o RefTail

RECURSIVE KidsJoinReversed(_)
\* the references joined last page first
KidsJoinReversed(k) ==
    IF k = 0 THEN <<>>
    ELSE IF k = 1 THEN Dec(page_nums(0)) \o Ref
    ELSE Dec(page_nums(k - 1)) \o Ref \o Space \o KidsJoinReversed(k - 1)

RECURSIVE KidsJoin(_)
\* " ".join(f"{pn} 0 R" for pn in page_nums[:k])
KidsJoin(k) ==
    IF k = 0 THEN <<>>
    ELSE IF k = 1 THEN Dec(page_nums(0)) \o Ref
    ELSE KidsJoin(k - 1) \o Space \o Dec(page_nums(k - 1)) \o Ref

\* the body of the page-tree object for n pages
PagesObj(n) == PagesHead \o KidsJoin(n) \o PagesMid \o Dec(n) \o DictEnd

\* the image XObject of a page (jpeg, w, h): header, payload, endstream
ImageObj(jpeg, w, h) ==
    ImgHead \o Dec(w) \o ImgHeight \o Dec(h) \o ImgMid \o Dec(Len(jpeg))
        \o StreamStart \o jpeg \o EndStream

\* the drawing instructions: scale the image to w x h
Content(w, h) == CmQ \o Dec(w) \o CmMid \o Dec(h) \o CmTail

\* the content-stream object
ContentObj(w, h) ==
    LengthHead \o Dec(Len(Content(w, h))) \o StreamStart \o Content(w, h)
        \o EndStream

\* a page dictionary whose /MediaBox has height and width exchanged
PageObjSwapped(i, w, h) ==
    PageHead \o Dec(pages_num) \o PageBox \o Dec(h) \o Space \o Dec(w)
        \o PageRes \o Dec(img_nums(i)) \o PageContents
        \o Dec(content_nums(i)) \o RefTail

\* the page dictionary of page i
PageObj(i, w, h) ==
    PageHead \o Dec(pages_num) \o PageBox \o Dec(w) \o Space \o Dec(h)
        \o PageRes \o Dec(img_nums(i)) \o PageContents
        \o Dec(content_nums(i)) \o RefTail

RECURSIVE XrefLines(_, _, _)
\* for num in range(from, max_num + 1): one line per identifier
XrefLines(offs, from, max_num) ==
    IF from > max_num THEN <<>>
    ELSE Dec010(DictGet(offs, from, 0)) \o InUseTail
            \o XrefLines(offs, from + 1, max_num)

\* the section with xref_offset taken after the keyword has been written
XrefAndTrailerLate(b, offs) ==
    LET xref_offset == Len(b \o XrefKw)
        max_num == MaxKey(offs)
    IN  b \o XrefKw
          \o XrefSub \o Dec(max_num + 1) \o Newline
          \o FreeEntry
          \o XrefLines(offs, 1, max_num)
          \o TrailerKw
          \o SizeHead \o Dec(max_num + 1) \o RootHead \o Dec(catalog_num)
          \o TrailerEnd
          \o StartXrefKw
          \o Dec(xref_offset) \o Newline
          \o EofMarker

\* the section with /Size and the subsection count one too small
XrefAndTrailerSmall(b, offs) ==
    LET xref_offset == Len(b)
        max_num == MaxKey(offs)
    IN  b \o XrefKw
          \o XrefSub \o Dec(max_num) \o Newline
          \o FreeEntry
          \o XrefLines(offs, 1, max_num - 1)
          \o TrailerKw
          \o SizeHead \o Dec(max_num) \o RootHead \o Dec(catalog_num)
          \o TrailerEnd
          \o StartXrefKw
          \o Dec(xref_offset) \o Newline
          \o EofMarker

\* cross-reference table, trailer, startxref and end-of-file marker,
\* appended to the buffer b with the offsets table offs
XrefAndTrailer(b, offs) ==
    LET xref_offset == Len(b)
        max_num == MaxKey(offs)
    IN  b \o XrefKw
          \o XrefSub \o Dec(max_num + 1) \o Newline
          \o FreeEntry
          \o XrefLines(offs, 1, max_num)
          \o TrailerKw
          \o SizeHead \o Dec(max_num + 1) \o RootHead \o Dec(catalog_num)
          \o TrailerEnd
          \o StartXrefKw
          \o Dec(xref_offset) \o Newline
          \o EofMarker

(***************************************************************************)
(* _jpeg_dimensions: helpers.  Byte(d, k) is Python's d[k]; an index       *)
(* outside the buffer raises IndexError.                                   *)
(***************************************************************************)
Readable(d, k) == 0 <= k /\ k < Len(d)
Byte(d, k) == d[k + 1]

\* (hi << 8) | lo for two bytes
Word(hi, lo) == hi * 256 + lo

\* marker codes SOF0, SOF1, SOF2
SofMarkers == {192, 193, 194}

Raised(e) == [exc |-> e, w |-> 0, h |-> 0]
Returned(w, h) == [exc |-> "none", w |-> w, h |-> h]

\* the loop condition `i < len(data) - 8`
ScanGuard(d, i) == i < Len(d) - 8

\* the loop body with a skip that forgets the two marker bytes
LoopBodyShortSkip(d, i) ==
    IF ~ScanGuard(d, i)
        THEN [kind |-> "raise", out |-> Raised("ValueError"), next |-> i]
    ELSE IF Byte(d, i) # 255
        THEN [kind |-> "raise", out |-> Raised("ValueError"), next |-> i]
    ELSE IF Byte(d, i + 1) \in SofMarkers
        THEN [kind |-> "return",
              out  |-> Returned(Word(Byte(d, i + 7), Byte(d, i + 8)),
                                Word(Byte(d, i + 5), Byte(d, i + 6))),
              next |-> i]
    ELSE [kind |-> "skip", out |-> Raised("none"),
          next |-> i + Word(Byte(d, i + 2), Byte(d, i + 3))]

\* what the loop does with the cursor at i: "raise" (the condition is false,
\* the byte is not FF and the loop breaks, or a subscript is out of range),
\* "return" (a start-of-frame marker) or "skip" (move the cursor to `next`)
LoopBody(d, i) ==
    IF ~ScanGuard(d, i)
        THEN [kind |-> "raise", out |-> Raised("ValueError"), next |-> i]
    ELSE IF ~Readable(d, i)
        THEN [kind |-> "raise", out |-> Raised("IndexError"), next |-> i]
    ELSE IF Byte(d, i) # 255
        THEN [kind |-> "raise", out |-> Raised("ValueError"), next |-> i]
    ELSE IF ~Readable(d, i + 1)
        THEN [kind |-> "raise", out |-> Raised("IndexError"), next |-> i]
    ELSE IF Byte(d, i + 1) \in SofMarkers
        THEN IF ~Readable(d, i + 8)
             THEN [kind |-> "raise", out |-> Raised("IndexError"), next |-> i]
             ELSE [kind |-> "return",
                   out  |-> Returned(Word(Byte(d, i + 7), Byte(d, i + 8)),
                                     Word(Byte(d, i + 5), Byte(d, i + 6))),
                   next |-> i]
    ELSE IF ~Readable(d, i + 3)
        THEN [kind |-> "raise", out |-> Raised("IndexError"), next |-> i]
    ELSE [kind |-> "skip", out |-> Raised("none"),
          next |-> i + 2 + Word(Byte(d, i + 2), Byte(d, i + 3))]

(***************************************************************************)
(* Inputs.  A JPEG stream is drawn as a shape: the signature FF D8,        *)
(* metadata segments and a start-of-frame segment; it is then kept intact, *)
(* cut to a prefix, or has one byte overwritten by zero.                   *)
(***************************************************************************)
Signature == <<255, 216>>

\* metadata segments: an empty APP0, a DQT whose payload looks like a frame
\* header, and a one-byte comment
Segments ==
    {[marker |-> 224, payload |-> <<>>],
     [marker |-> 219, payload |-> <<255, 192, 0, 11, 8, 0, 9, 0, 9>>],
     [marker |-> 254, payload |-> <<7>>]}

\* frame headers: one per start-of-frame code, size is (width, height)
Frames ==
    {[marker |-> 192, size |-> <<100, 50>>],
     [marker |-> 193, size |-> <<0, 3>>],
     [marker |-> 194, size |-> <<65535, 256>>]}

RECURSIVE SeqsUpTo(_, _)
\* all sequences over S of length at most n
SeqsUpTo(S, n) ==
    IF n = 0 THEN {<<>>}
    ELSE LET shorter == SeqsUpTo(S, n - 1)
         IN  shorter \cup {Append(q, x) : q \in {r \in shorter : Len(r) = n - 1},
                                          x \in S}

Hi(v) == v \div 256
Lo(v) == v % 256

\* marker prefix, code, big-endian length (counting itself), payload
SegmentBytes(seg) ==
    <<255, seg.marker, Hi(2 + Len(seg.payload)), Lo(2 + Len(seg.payload))>>
        \o seg.payload

RECURSIVE SegmentsBytes(_)
SegmentsBytes(segs) ==
    IF segs = <<>> THEN <<>>
    ELSE SegmentBytes(Head(segs)) \o SegmentsBytes(Tail(segs))

\* marker prefix, code, length 8, precision 8, height, width
FrameBytes(f) ==
    <<255, f.marker, 0, 8, 8,
      Hi(f.size[2]), Lo(f.size[2]), Hi(f.size[1]), Lo(f.size[1])>>

\* the whole well-formed stream
StreamBytes(segs, frame) == Signature \o SegmentsBytes(segs) \o FrameBytes(frame)

\* the stream as handed to the parser: intact, cut to `at` bytes, or with
\* the byte at 0-based position `at` set to zero
ShapeBytes(sh) ==
    LET full == StreamBytes(sh.segs, sh.frame)
    IN  CASE sh.mode = "intact" -> full
          [] sh.mode = "cut"    -> SubSeq(full, 1, sh.at)
          [] sh.mode = "zeroed" -> [k \in 1..Len(full) |->
                                        IF k = sh.at + 1 THEN 0 ELSE full[k]]

Shapes ==
    UNION {
        {[segs |-> ss, frame |-> f, mode |-> "intact", at |-> 0]}
        \cup {[segs |-> ss, frame |-> f, mode |-> m, at |-> a] :
                m \in {"cut", "zeroed"},
                a \in 0..(Len(StreamBytes(ss, f)) - 1)}
        : ss \in SeqsUpTo(Segments, MaxSegs), f \in Frames }

NoShape == [segs |-> <<>>, frame |-> [marker |-> 0, size |-> <<0, 0>>],
            mode |-> "none", at |-> 0]

\* pages handed to the builder: (jpeg, w, h)
PageChoices ==
    { << <<255, 216, 255, 217>>, 10, 10 >>,
      << <<>>, 20, 30 >>,
      << <<120, 114, 101, 102, 10>>, 5, 5 >>,
      << <<0>>, 65535, 0 >> }

\* two streams that parse, and one that does not
GoodJpegA == StreamBytes(<<>>, [marker |-> 192, size |-> <<100, 50>>])
GoodJpegB ==
    StreamBytes(<<[marker |-> 224, payload |-> <<>>]>>,
                [marker |-> 194, size |-> <<7, 1234>>])
BadJpeg == <<255, 216, 255, 217>>

\* per input file: did sips succeed and leave a file, and with what bytes
SipsOutcomes ==
    {[ok |-> FALSE, jpeg |-> <<>>], [ok |-> TRUE, jpeg |-> GoodJpegA],
     [ok |-> TRUE, jpeg |-> GoodJpegB], [ok |-> TRUE, jpeg |-> BadJpeg]}

(***************************************************************************)
(* Initial states: one per entry point.                                    *)
(***************************************************************************)
NoDims == [exc |-> "pending", w |-> 0, h |-> 0]
NoPdf == [exc |-> "pending", buf |-> <<>>]
NoOutput == [written |-> FALSE, bytes |-> <<>>]

ParseIdle == data = <<>> /\ shape = NoShape /\ scan_i = 0 /\ dims = NoDims
BuildIdle == buf = <<>> /\ offsets = <<>> /\ page_i = 0 /\ pdf = NoPdf
SipsIdle == png_files = <<>> /\ idx = 0 /\ ret = "none" /\ output = NoOutput

\* _jpeg_dimensions(data) has been called; i = 2
InitParse ==
    /\ shape \in Shapes
    /\ data = ShapeBytes(shape)
    /\ scan_i = 2
    /\ dims = NoDims
    /\ pages = <<>> /\ BuildIdle /\ SipsIdle
    /\ caller = "direct"
    /\ pc = "parse_loop"

\* _build_jpeg_pdf(pages) has been called
InitBuild ==
    /\ pages \in SeqsUpTo(PageChoices, MaxPages)
    /\ BuildIdle /\ ParseIdle /\ SipsIdle
    /\ caller = "direct"
    /\ pc = "build_start"

\* combine_via_sips(png_files, output_path) has entered its try block
InitSips ==
    /\ png_files \in SeqsUpTo(SipsOutcomes, MaxFiles)
    /\ idx = 0 /\ pages = <<>> /\ ret = "none" /\ output = NoOutput
    /\ BuildIdle /\ ParseIdle
    /\ caller = "sips"
    /\ pc = "sips_loop"

(***************************************************************************)
(* _jpeg_dimensions, one action per way through the loop.                  *)
(***************************************************************************)
\* the function raises: ValueError after the loop, or a subscript error
ScanRaise ==
    /\ pc = "parse_loop"
    /\ LoopBody(data, scan_i).kind = "raise"
    /\ dims' = LoopBody(data, scan_i).out
    /\ pc' = "parse_done"
    /\ UNCHANGED <<data, shape, scan_i, pages, buildVars, sipsVars, caller>>

\* a start-of-frame marker: return (w, h)
ScanFrame ==
    /\ pc = "parse_loop"
    /\ LoopBody(data, scan_i).kind = "return"
    /\ dims' = LoopBody(data, scan_i).out
    /\ pc' = "parse_done"
    /\ UNCHANGED <<data, shape, scan_i, pages, buildVars, sipsVars, caller>>

\* any other marker: skip the segment by its length field
ScanSkip ==
    /\ pc = "parse_loop"
    /\ LoopBody(data, scan_i).kind = "skip"
    /\ scan_i' = LoopBody(data, scan_i).next
    /\ UNCHANGED <<data, shape, dims, pages, buildVars, sipsVars, caller, pc>>

(***************************************************************************)
(* _build_jpeg_pdf, one action per object written.                         *)
(***************************************************************************)
\* buf = bytearray(); offsets = {}; the header comment lines
BuildStart ==
    /\ pc = "build_start"
    /\ buf' = PdfHeader
    /\ offsets' = <<>>
    /\ page_i' = 0
    /\ pc' = "build_catalog"
    /\ UNCHANGED <<parseVars, pages, pdf, sipsVars, caller>>

\* the locals add_obj works on
Locals == [buf |-> buf, offsets |-> offsets]

BuildCatalog ==
    /\ pc = "build_catalog"
    /\ buf' = add_obj(Locals, catalog_num, CatalogObj).buf
    /\ offsets' = add_obj(Locals, catalog_num, CatalogObj).offsets
    /\ pc' = "build_pages"
    /\ UNCHANGED <<parseVars, pages, page_i, pdf, sipsVars, caller>>

BuildPages ==
    /\ pc = "build_pages"
    /\ buf' = add_obj(Locals, pages_num, PagesObj(Len(pages))).buf
    /\ offsets' = add_obj(Locals, pages_num, PagesObj(Len(pages))).offsets
    /\ pc' = IF Len(pages) = 0 THEN "build_xref" ELSE "build_image"
    /\ UNCHANGED <<parseVars, pages, page_i, pdf, sipsVars, caller>>

\* the page (jpeg, w, h) of the current iteration
CurPage == pages[page_i + 1]

BuildImage ==
    /\ pc = "build_image"
    /\ LET obj == ImageObj(CurPage[1], CurPage[2], CurPage[3])
       IN  /\ buf' = add_obj(Locals, img_nums(page_i), obj).buf
           /\ offsets' = add_obj(Locals, img_nums(page_i), obj).offsets
    /\ pc' = "build_content"
    /\ UNCHANGED <<parseVars, pages, page_i, pdf, sipsVars, caller>>

BuildContent ==
    /\ pc = "build_content"
    /\ LET obj == ContentObj(CurPage[2], CurPage[3])
       IN  /\ buf' = add_obj(Locals, content_nums(page_i), obj).buf
           /\ offsets' = add_obj(Locals, content_nums(page_i), obj).offsets
    /\ pc' = "build_page"
    /\ UNCHANGED <<parseVars, pages, page_i, pdf, sipsVars, caller>>

\* the page dictionary, and the step of the for loop
BuildPage ==
    /\ pc = "build_page"
    /\ LET obj == PageObj(page_i, CurPage[2], CurPage[3])
       IN  /\ buf' = add_obj(Locals, page_nums(page_i), obj).buf
           /\ offsets' = add_obj(Locals, page_nums(page_i), obj).offsets
    /\ page_i' = page_i + 1
    /\ pc' = IF page_i + 1 < Len(pages) THEN "build_image" ELSE "build_xref"
    /\ UNCHANGED <<parseVars, pages, pdf, sipsVars, caller>>

\* the cross-reference table, the trailer and the return; max() of an empty
\* dict raises ValueError
BuildXref ==
    /\ pc = "build_xref"
    /\ IF DOMAIN offsets = {}
       THEN /\ pdf' = [exc |-> "ValueError", buf |-> <<>>]
            /\ UNCHANGED buf
       ELSE /\ buf' = XrefAndTrailer(buf, offsets)
            /\ pdf' = [exc |-> "none", buf |-> buf']
    /\ pc' = "build_done"
    /\ UNCHANGED <<parseVars, pages, offsets, page_i, sipsVars, caller>>

(***************************************************************************)
(* combine_via_sips.                                                       *)
(***************************************************************************)
\* one iteration of `for png_path in png_files` up to the parser call: a
\* failed conversion is logged and skipped, a converted file is read and
\* handed to _jpeg_dimensions
SipsConvert ==
    /\ pc = "sips_loop"
    /\ idx < Len(png_files)
    /\ IF ~png_files[idx + 1].ok
       THEN /\ idx' = idx + 1
            /\ UNCHANGED <<data, scan_i, dims, pc>>
       ELSE /\ data' = png_files[idx + 1].jpeg
            /\ scan_i' = 2
            /\ dims' = NoDims
            /\ pc' = "parse_loop"
            /\ UNCHANGED idx
    /\ UNCHANGED <<shape, pages, buildVars, png_files, ret, output, caller>>

\* _jpeg_dimensions has finished: an exception reaches `except Exception`
\* and the function returns False; otherwise the page is appended
SipsParsed ==
    /\ pc = "parse_done"
    /\ caller = "sips"
    /\ IF dims.exc # "none"
       THEN /\ ret' = FALSE
            /\ pc' = "sips_done"
            /\ UNCHANGED <<pages, idx>>
       ELSE /\ pages' = Append(pages, <<data, dims.w, dims.h>>)
            /\ idx' = idx + 1
            /\ pc' = "sips_loop"
            /\ UNCHANGED ret
    /\ UNCHANGED <<parseVars, buildVars, png_files, output, caller>>

\* the step after the loop without the test for an empty list
SipsCollectedNoCheck ==
    /\ pc = "sips_loop"
    /\ idx = Len(png_files)
    /\ ret' = ret /\ pc' = "build_start"
    /\ UNCHANGED <<parseVars, pages, buildVars, png_files, idx, output, caller>>

\* after the loop: no pages returns False, otherwise _build_jpeg_pdf is called
SipsCollected ==
    /\ pc = "sips_loop"
    /\ idx = Len(png_files)
    /\ IF pages = <<>>
       THEN ret' = FALSE /\ pc' = "sips_done"
       ELSE ret' = ret /\ pc' = "build_start"
    /\ UNCHANGED <<parseVars, pages, buildVars, png_files, idx, output, caller>>

\* _build_jpeg_pdf has finished: write the bytes and return True (an
\* exception returns False)
SipsWrite ==
    /\ pc = "build_done"
    /\ caller = "sips"
    /\ IF pdf.exc # "none"
       THEN ret' = FALSE /\ UNCHANGED output
       ELSE /\ output' = [written |-> TRUE, bytes |-> pdf.buf]
            /\ ret' = TRUE
    /\ pc' = "sips_done"
    /\ UNCHANGED <<parseVars, pages, buildVars, png_files, idx, caller>>

NextParse == ScanRaise \/ ScanFrame \/ ScanSkip
NextBuild ==
    \/ BuildStart \/ BuildCatalog \/ BuildPages \/ BuildImage
    \/ BuildContent \/ BuildPage \/ BuildXref
NextSips == SipsConvert \/ SipsParsed \/ SipsCollected \/ SipsWrite
Next == NextSips \/ NextParse \/ NextBuild

SpecParse == InitParse /\ [][NextParse]_vars
SpecBuild == InitBuild /\ [][NextBuild]_vars
SpecSips == InitSips /\ [][Next]_vars
Init == InitBuild \/ InitSips
Spec == Init /\ [][Next]_vars

(***************************************************************************)
(* A reader of the produced bytes.  The properties below are stated on     *)
(* what a reader finds in the buffer, not on what the writer meant to put  *)
(* there.  Positions `pos` are 1-based; byte offsets are 0-based.          *)
(* Intermediate results are bound through singleton sets so that each is   *)
(* evaluated once.                                                         *)
(***************************************************************************)
IsDigit(c) == c \in 48..57

RECURSIVE DigitsEnd(_, _)
\* the first position from p on that holds no digit
DigitsEnd(b, p) ==
    IF p <= Len(b) /\ IsDigit(b[p]) THEN DigitsEnd(b, p + 1) ELSE p

RECURSIVE DigitsStart(_, _)
\* the first position of the run of digits that ends at p (p + 1 if none)
DigitsStart(b, p) ==
    IF p >= 1 /\ IsDigit(b[p]) THEN DigitsStart(b, p - 1) ELSE p + 1

RECURSIVE NumVal(_, _, _)
\* the decimal number written at positions from .. to - 1
NumVal(b, from, to) ==
    IF to <= from THEN 0
    ELSE NumVal(b, from, to - 1) * 10 + (b[to - 1] - 48)

\* does the byte string lit stand at position p
LitAt(b, p, lit) ==
    /\ p >= 1
    /\ p + Len(lit) - 1 <= Len(b)
    /\ SubSeq(b, p, p + Len(lit) - 1) = lit

\* template items: a literal, a decimal number to capture, the list of
\* references of /Kids, and a payload as long as the last captured number
Lit(bytes) == [kind |-> "lit", bytes |-> bytes]
Num == [kind |-> "num", bytes |-> <<>>]
KidsList == [kind |-> "kids", bytes |-> <<>>]
Payload == [kind |-> "payload", bytes |-> <<>>]

Failed(r) == [ok |-> FALSE, nums |-> r.nums, pos |-> r.pos]

RECURSIVE Run(_, _, _, _)
RECURSIVE KidsRun(_, _)

\* match one template item at r.pos
MatchStep(b, item, r) ==
    CASE item.kind = "lit" ->
            IF LitAt(b, r.pos, item.bytes)
            THEN [ok |-> TRUE, nums |-> r.nums, pos |-> r.pos + Len(item.bytes)]
            ELSE Failed(r)
      [] item.kind = "num" ->
            IF DigitsEnd(b, r.pos) = r.pos THEN Failed(r)
            ELSE [ok   |-> TRUE,
                  nums |-> Append(r.nums, NumVal(b, r.pos, DigitsEnd(b, r.pos))),
                  pos  |-> DigitsEnd(b, r.pos)]
      [] item.kind = "kids" -> KidsRun(b, r)
      [] item.kind = "payload" ->
            IF r.nums = <<>> \/ r.pos + r.nums[Len(r.nums)] > Len(b) + 1
            THEN Failed(r)
            ELSE [ok |-> TRUE, nums |-> r.nums,
                  pos |-> r.pos + r.nums[Len(r.nums)]]

\* match the items k.. of a template from the result r of the earlier ones
Run(b, tmpl, k, r) ==
    IF k > Len(tmpl) \/ ~r.ok THEN r
    ELSE CHOOSE res \in {Run(b, tmpl, k + 1, s) : s \in {MatchStep(b, tmpl[k], r)}} :
            TRUE

\* one reference "N 0 R" and the blank after it, if any
KidStep(b, r) ==
    CHOOSE res \in
        {IF s.ok /\ LitAt(b, s.pos, Space)
            THEN [ok |-> TRUE, nums |-> s.nums, pos |-> s.pos + 1] ELSE s
         : s \in {Run(b, <<Num, Lit(Ref)>>, 1, r)}} : TRUE

\* references up to the closing bracket
KidsRun(b, r) ==
    IF ~r.ok \/ r.pos > Len(b) \/ b[r.pos] = 93 THEN r
    ELSE CHOOSE res \in {KidsRun(b, s) : s \in {KidStep(b, r)}} : TRUE

\* match a whole template at position p
Match(b, p, tmpl) == Run(b, tmpl, 1, [ok |-> TRUE, nums |-> <<>>, pos |-> p])

\* the five kinds of object the file holds, each from "N 0 obj" to "endobj"
ObjTemplates ==
    [catalog |-> <<Num, Lit(ObjTail), Lit(CatalogHead), Num, Lit(RefTail),
                   Lit(EndObj)>>,
     pages   |-> <<Num, Lit(ObjTail), Lit(PagesHead), KidsList, Lit(PagesMid),
                   Num, Lit(DictEnd), Lit(EndObj)>>,
     image   |-> <<Num, Lit(ObjTail), Lit(ImgHead), Num, Lit(ImgHeight), Num,
                   Lit(ImgMid), Num, Lit(StreamStart), Payload, Lit(EndStream),
                   Lit(EndObj)>>,
     content |-> <<Num, Lit(ObjTail), Lit(LengthHead), Num, Lit(StreamStart),
                   Lit(CmQ), Num, Lit(CmMid), Num, Lit(CmTail), Lit(EndStream),
                   Lit(EndObj)>>,
     page    |-> <<Num, Lit(ObjTail), Lit(PageHead), Num, Lit(PageBox), Num,
                   Lit(Space), Num, Lit(PageRes), Num, Lit(PageContents), Num,
                   Lit(RefTail), Lit(EndObj)>>]

ObjKinds == {"catalog", "pages", "image", "content", "page"}

NoObj == [kind |-> "none", nums |-> <<>>, at |-> 0, next |-> 0]

\* the object that starts at position p, if one of the templates matches
ReadObj(b, p) ==
    CHOOSE res \in
        {IF \E kd \in ObjKinds : ms[kd].ok
            THEN LET kd == CHOOSE kd \in ObjKinds : ms[kd].ok
                 IN  [kind |-> kd, nums |-> ms[kd].nums, at |-> p - 1,
                      next |-> ms[kd].pos]
            ELSE NoObj
         : ms \in {[kd \in ObjKinds |-> Match(b, p, ObjTemplates[kd])]}} : TRUE

RECURSIVE ReadBody(_, _, _)
\* the objects from position p on, in file order, up to the first position
\* where no object starts; acc is what was read before p
ReadBody(b, p, acc) ==
    CHOOSE res \in
        {IF o.kind = "none" THEN [objs |-> acc, pos |-> p]
                            ELSE ReadBody(b, o.next, Append(acc, o))
         : o \in {ReadObj(b, p)}} : TRUE

\* the number on the line before the final %%EOF line, after `startxref`
ReadStartXref(b) ==
    LET nl == Len(b) - Len(EofMarker)
        first == DigitsStart(b, nl - 1)
    IN  IF /\ nl >= 2
           /\ LitAt(b, nl + 1, EofMarker)
           /\ b[nl] = 10
           /\ first < nl
           /\ LitAt(b, first - Len(StartXrefKw), StartXrefKw)
        THEN [ok |-> TRUE, val |-> NumVal(b, first, nl)]
        ELSE [ok |-> FALSE, val |-> 0]

\* one 20-byte line of the table: offset, generation, f or n
XrefEntryTemplate == <<Num, Lit(Space), Num, Lit(Space)>>
ReadEntry(b, p) ==
    CHOOSE res \in
        {IF /\ m.ok /\ m.pos = p + 17 /\ p + 19 <= Len(b)
            /\ DigitsEnd(b, p) = p + 10
            /\ b[p + 17] \in {102, 110} /\ b[p + 18] = 32 /\ b[p + 19] = 10
            THEN [ok |-> TRUE, off |-> m.nums[1], gen |-> m.nums[2],
                  free |-> (b[p + 17] = 102)]
            ELSE [ok |-> FALSE, off |-> 0, gen |-> 0, free |-> FALSE]
         : m \in {Match(b, p, XrefEntryTemplate)}} : TRUE

\* "xref", the subsection header "0 N", and where the entries start
XrefHeadTemplate == <<Lit(XrefKw), Lit(XrefSub), Num, Lit(Newline)>>

\* what follows the entries, to the end of the file
TrailerTemplate ==
    <<Lit(TrailerKw), Lit(SizeHead), Num, Lit(RootHead), Num, Lit(TrailerEnd),
      Lit(StartXrefKw), Num, Lit(Newline), Lit(EofMarker)>>

\* the cross-reference section at byte offset x: the declared count, the
\* entries by identifier (entry k is entries[k + 1]) and the trailer
ReadXref(b, x) ==
    CHOOSE res \in
        {IF ~hd.ok
            THEN [ok |-> FALSE, count |-> 0, entries |-> <<>>, size |-> 0,
                  root |-> 0]
            ELSE LET n == hd.nums[1]
                     es == [k \in 1..n |-> ReadEntry(b, hd.pos + 20 * (k - 1))]
                     tr == Match(b, hd.pos + 20 * n, TrailerTemplate)
                 IN  IF (\A k \in 1..n : es[k].ok) /\ tr.ok /\ tr.pos = Len(b) + 1
                     THEN [ok |-> TRUE, count |-> n, entries |-> es,
                           size |-> tr.nums[1], root |-> tr.nums[2]]
                     ELSE [ok |-> FALSE, count |-> n, entries |-> <<>>,
                           size |-> 0, root |-> 0]
         : hd \in {Match(b, x + 1, XrefHeadTemplate)}} : TRUE

\* the whole file as a reader sees it
ReadDocument(b) ==
    CHOOSE res \in
        {[startxref |-> sx, xref |-> ReadXref(b, sx.val), objs |-> body.objs,
          bodyEnd |-> body.pos - 1]
         : sx \in {ReadStartXref(b)},
           body \in {IF LitAt(b, 1, PdfHeader)
                     THEN ReadBody(b, Len(PdfHeader) + 1, <<>>)
                     ELSE [objs |-> <<>>, pos |-> 1]}} : TRUE

\* the object read at byte offset off, if any
ObjAtOffset(doc, off) ==
    LET found == {j \in 1..Len(doc.objs) : doc.objs[j].at = off}
    IN  IF found = {} THEN NoObj ELSE doc.objs[CHOOSE j \in found : TRUE]

\* the object a reference "id 0 R" leads to: the in-use entry of the table
\* gives the offset, and the object there must carry that identifier
Resolve(doc, id) ==
    IF /\ doc.xref.ok
       /\ id \in 1..(Len(doc.xref.entries) - 1)
       /\ ~doc.xref.entries[id + 1].free
    THEN LET o == ObjAtOffset(doc, doc.xref.entries[id + 1].off)
         IN  IF o.kind # "none" /\ o.nums[1] = id THEN o ELSE NoObj
    ELSE NoObj

\* the objects of one kind, in file order
RECURSIVE OfKind(_, _)
OfKind(objs, kd) ==
    IF objs = <<>> THEN <<>>
    ELSE IF Head(objs).kind = kd THEN <<Head(objs)>> \o OfKind(Tail(objs), kd)
    ELSE OfKind(Tail(objs), kd)

\* the identifiers defined in the file, in file order
DefinedIds(doc) == [j \in 1..Len(doc.objs) |-> doc.objs[j].nums[1]]

NoDuplicates(q) == \A j, k \in 1..Len(q) : q[j] = q[k] => j = k

\* _build_jpeg_pdf has returned its buffer
BuildReturned == pdf.exc = "none"

\* the returned buffer as a reader sees it
Doc == ReadDocument(pdf.buf)

(***************************************************************************)
(* Properties of _build_jpeg_pdf.                                          *)
(***************************************************************************)
\* C1: for every non-empty sequence of pages, the number after `startxref`
\* is the byte position at which the `xref` keyword begins: the objects end
\* there, the keyword stands there, and from there to the end of the file
\* the bytes read as table, trailer, startxref and %%EOF.
C1_StartxrefIsXrefPosition ==
    (BuildReturned /\ pages # <<>>) =>
        \A doc \in {Doc} :
            /\ doc.startxref.ok
            /\ LitAt(pdf.buf, doc.startxref.val + 1, XrefKw)
            /\ doc.bodyEnd = doc.startxref.val
            /\ doc.xref.ok

C1_Witness ==
    /\ BuildReturned
    /\ Len(pages) = 2
    /\ pages[1][1] = <<120, 114, 101, 102, 10>>
    /\ ReadStartXref(pdf.buf).val > 500

\* C2: for every input, the table has exactly one entry per identifier from
\* 0 to /Size - 1 in ascending order, entry 0 is the free-list head, and the
\* entry of every k >= 1 is the offset add_obj recorded, at which the
\* definition "k 0 obj" starts; no identifier is missing from offsets.
C2_XrefEntries ==
    BuildReturned =>
        \A doc \in {Doc} :
            /\ doc.xref.ok
            /\ doc.xref.count = doc.xref.size
            /\ Len(doc.xref.entries) = doc.xref.size
            /\ doc.xref.entries[1] =
                    [ok |-> TRUE, off |-> 0, gen |-> 65535, free |-> TRUE]
            /\ \A k \in 1..(doc.xref.size - 1) :
                    /\ k \in DOMAIN offsets
                    /\ doc.xref.entries[k + 1] =
                        [ok |-> TRUE, off |-> offsets[k], gen |-> 0, free |-> FALSE]
                    /\ \A m \in {Match(pdf.buf, offsets[k] + 1, <<Num, Lit(ObjTail)>>)} :
                            m.ok /\ m.nums = <<k>>

C2_Witness ==
    /\ BuildReturned
    /\ Len(pages) = 2
    /\ ReadXref(pdf.buf, ReadStartXref(pdf.buf).val).count = 9
    /\ offsets[8] > offsets[7]

\* C4: for n >= 1 pages the file defines 1 (catalog), 2 (page tree) and for
\* each page index i the image 3+3i, the content stream 4+3i and the page
\* dictionary 5+3i, each for the i-th input page; the identifiers defined
\* are exactly 1..2+3n, each defined once.
C4_IdentifierLayout ==
    (BuildReturned /\ Len(pages) >= 1) =>
        \A doc \in {Doc} :
            /\ doc.bodyEnd = doc.startxref.val
            /\ Len(doc.objs) = 2 + 3 * Len(pages)
            /\ NoDuplicates(DefinedIds(doc))
            /\ {DefinedIds(doc)[j] : j \in 1..Len(doc.objs)} = 1..(2 + 3 * Len(pages))
            /\ DOMAIN offsets = 1..(2 + 3 * Len(pages))
            /\ Resolve(doc, 1).kind = "catalog"
            /\ Resolve(doc, 2).kind = "pages"
            /\ \A i \in 0..(Len(pages) - 1) :
                /\ Resolve(doc, 3 + 3 * i).kind = "image"
                /\ SubSeq(Resolve(doc, 3 + 3 * i).nums, 2, 4) =
                        <<pages[i + 1][2], pages[i + 1][3], Len(pages[i + 1][1])>>
                /\ Resolve(doc, 4 + 3 * i).kind = "content"
                /\ SubSeq(Resolve(doc, 4 + 3 * i).nums, 3, 4) =
                        <<pages[i + 1][2], pages[i + 1][3]>>
                /\ Resolve(doc, 5 + 3 * i).kind = "page"
                /\ SubSeq(Resolve(doc, 5 + 3 * i).nums, 3, 4) =
                        <<pages[i + 1][2], pages[i + 1][3]>>

C4_Witness ==
    /\ BuildReturned
    /\ pages = << << <<255, 216, 255, 217>>, 10, 10 >>, << <<>>, 20, 30 >>,
                  << <<120, 114, 101, 102, 10>>, 5, 5 >> >>
    /\ {6, 7, 8} \subseteq DOMAIN offsets
    /\ Resolve(Doc, 8).kind = "page"

\* C5: for n >= 1 pages the /Size of the trailer and the count of the
\* subsection header are 3n + 3, the largest identifier defined plus one.
C5_DeclaredSize ==
    (BuildReturned /\ Len(pages) >= 1) =>
        \A doc \in {Doc} :
            /\ doc.xref.ok
            /\ doc.xref.size = 3 * Len(pages) + 3
            /\ doc.xref.count = 3 * Len(pages) + 3
            /\ doc.objs # <<>>
            /\ \A j \in 1..Len(doc.objs) : doc.objs[j].nums[1] < doc.xref.size
            /\ \E j \in 1..Len(doc.objs) : doc.objs[j].nums[1] + 1 = doc.xref.size

C5_Witness ==
    /\ BuildReturned
    /\ Len(pages) = 3
    /\ ReadXref(pdf.buf, ReadStartXref(pdf.buf).val).size = 12

\* C6: every page dictionary's /MediaBox [0 0 w h] has the /Width and
\* /Height of the image its resources name, and the content stream it names
\* scales by the same w and h; there is one such dictionary per input page.
C6_PageMatchesImage ==
    BuildReturned =>
        \A doc \in {Doc} :
            /\ Len(OfKind(doc.objs, "page")) = Len(pages)
            /\ \A j \in 1..Len(doc.objs) :
                doc.objs[j].kind = "page" =>
                    \A pg \in {doc.objs[j]} :
                    \A img \in {Resolve(doc, pg.nums[5])} :
                    \A cs \in {Resolve(doc, pg.nums[6])} :
                        /\ img.kind = "image"
                        /\ cs.kind = "content"
                        /\ <<img.nums[2], img.nums[3]>> = <<pg.nums[3], pg.nums[4]>>
                        /\ <<cs.nums[3], cs.nums[4]>> = <<pg.nums[3], pg.nums[4]>>

C6_Witness ==
    /\ BuildReturned
    /\ Len(pages) = 2
    /\ pages[2][2] = 20 /\ pages[2][3] = 30
    /\ Resolve(Doc, 8).nums = <<8, 2, 20, 30, 6, 7>>

\* C7: for n >= 1 pages the page tree lists every page dictionary once, in
\* input order, with /Count n; the dictionary at position i names the image
\* and the content stream written for input page i and the tree as parent.
C7_PageTreeOrder ==
    (BuildReturned /\ Len(pages) >= 1) =>
        \A doc \in {Doc} :
        \A tree \in {Resolve(doc, Resolve(doc, doc.xref.root).nums[2])} :
        \A imgs \in {OfKind(doc.objs, "image")} :
        \A css \in {OfKind(doc.objs, "content")} :
            /\ tree.kind = "pages"
            /\ Len(tree.nums) = Len(pages) + 2
            /\ tree.nums[Len(tree.nums)] = Len(pages)
            /\ NoDuplicates(SubSeq(tree.nums, 2, Len(pages) + 1))
            /\ {tree.nums[k + 1] : k \in 1..Len(pages)} =
                    {o.nums[1] : o \in {doc.objs[j] : j \in
                        {j \in 1..Len(doc.objs) : doc.objs[j].kind = "page"}}}
            /\ Len(imgs) = Len(pages)
            /\ Len(css) = Len(pages)
            /\ \A i \in 1..Len(pages) :
                \A pg \in {Resolve(doc, tree.nums[i + 1])} :
                    /\ pg.kind = "page"
                    /\ pg.nums[2] = tree.nums[1]
                    /\ pg.nums[5] = imgs[i].nums[1]
                    /\ pg.nums[6] = css[i].nums[1]
                    /\ SubSeq(imgs[i].nums, 2, 4) =
                            <<pages[i][2], pages[i][3], Len(pages[i][1])>>
                    /\ SubSeq(css[i].nums, 3, 4) = <<pages[i][2], pages[i][3]>>

C7_Witness ==
    /\ BuildReturned
    /\ Len(pages) = 3
    /\ pages[1] # pages[2] /\ pages[2] # pages[3] /\ pages[1] # pages[3]
    /\ Resolve(Doc, 2).nums = <<2, 5, 8, 11, 3>>

(***************************************************************************)
(* Properties of combine_via_sips with zero pages.                         *)
(***************************************************************************)
BuildPcs ==
    {"build_start", "build_catalog", "build_pages", "build_image",
     "build_content", "build_page", "build_xref", "build_done"}

MarkerPositions(sh) ==
    {2 + Len(SegmentsBytes(SubSeq(sh.segs, 1, j))) : j \in 0..Len(sh.segs)}

\* C8: for every stream made of the signature, any number of non-frame
\* segments with correct lengths, and a start-of-frame segment, the cursor
\* moves from marker to marker by the segment lengths (it never stands in a
\* payload) and the result is (width, height) as encoded in the frame.
C8_WellFormedStream ==
    (caller = "direct" /\ shape.mode = "intact") =>
        /\ pc = "parse_loop" => scan_i \in MarkerPositions(shape)
        /\ pc = "parse_done" =>
                dims = Returned(shape.frame.size[1], shape.frame.size[2])

C8_Witness ==
    /\ pc = "parse_done"
    /\ shape.mode = "intact"
    /\ Len(shape.segs) = 2
    /\ shape.segs[1] # shape.segs[2]
    /\ shape.segs[1].payload # <<>>
    /\ dims = Returned(100, 50)

\* C9: for every input the parser ends in exactly one of two outcomes, a
\* pair of positive integers or the parse error (ValueError); it ends in
\* the parse error whenever a marker-prefix position does not hold FF or
\* the stream is cut short before the frame is complete.
C9_PositivePairOrParseError ==
    (caller = "direct" /\ pc = "parse_done") =>
        /\ \/ dims.exc = "none" /\ dims.w > 0 /\ dims.h > 0
           \/ dims.exc = "ValueError"
        /\ (shape.mode = "zeroed" /\ shape.at \in MarkerPositions(shape)) =>
                dims.exc = "ValueError"
        /\ shape.mode = "cut" => dims.exc = "ValueError"

\* C9 without the sign of the pair: the outcome is a pair of 16-bit values
\* or ValueError, never IndexError, and the error cases are as stated.
C9_PairOrParseError ==
    (caller = "direct" /\ pc = "parse_done") =>
        /\ \/ dims.exc = "none" /\ dims.w \in 0..65535 /\ dims.h \in 0..65535
           \/ dims.exc = "ValueError"
        /\ (shape.mode = "zeroed" /\ shape.at \in MarkerPositions(shape)) =>
                dims.exc = "ValueError"
        /\ shape.mode = "cut" => dims.exc = "ValueError"

(***************************************************************************)
(* Properties of combine_via_sips with a failing image.                    *)
(***************************************************************************)
\* C10: an image that cannot be converted or parsed makes the call return
\* False and write nothing; every successful call writes one page per input
\* image, in input order.
C10_FailedImageIsFatal ==
    (caller = "sips" /\ pc = "sips_done") =>
        /\ (\E k \in 1..Len(png_files) :
                ~png_files[k].ok \/ png_files[k].jpeg = BadJpeg) =>
                    (ret = FALSE /\ ~output.written)
        /\ ret = TRUE =>
                /\ output.written
                /\ \A doc \in {ReadDocument(output.bytes)} :
                   \A imgs \in {OfKind(doc.objs, "image")} :
                        /\ Len(imgs) = Len(png_files)
                        /\ \A k \in 1..Len(png_files) :
                                imgs[k].nums[4] = Len(png_files[k].jpeg)

====
